---- MODULE Spec2Model ----
(***************************************************************************)
(* spectroperf: the workload execution engine.                             *)
(*                                                                         *)
(* Run spawns numUsers runLoop goroutines that share one cancellation      *)
(* context and one sync.WaitGroup.  Each runLoop owns a seeded            *)
(* math/rand generator and a time.After(runTime) timer and repeats:        *)
(* select {ctx.Done | timeout | default}; in the default branch it samples *)
(* the next operation from the Markov chain, increments the attempt        *)
(* counter, sleeps the think time, invokes the operation function, and     *)
(* records the duration and the failure.                                   *)
(*                                                                         *)
(* Time is in milliseconds.  Probabilities are in units of 1/ProbDenom and *)
(* a Float64 draw is the generator state s read as s/RngMod.               *)
(***************************************************************************)
EXTENDS Integers, Sequences, FiniteSets, TLC

(***************************************************************************)
(* Bounds of the model.                                                    *)
(***************************************************************************)
NumUsers == 2
MaxIter == 2
MaxOpDraws == 1
MaxTicks == 4
Quantum == 1000
MaxMinutes == 4
MaxItems == 3
NumConc == 2
MaxPolls == 2
PhaseStep == 250

(***************************************************************************)
(* Program constants.                                                      *)
(***************************************************************************)
RandSeed == 11211
ThinkLow == 400
ThinkHigh == 5000
MinSleep == 100

Users == 0 .. (NumUsers - 1)

\* OperationPhase and States, workload/metrics.go.
RampUp == "RampUp"
Steady == "Steady"
RampDown == "RampDown"
States == {RampUp, Steady, RampDown}

(***************************************************************************)
(* The workload handed to Run: Operations() and Probabilities() of the     *)
(* user-profile workload, the probabilities in thousandths.  Its operation *)
(* functions are taken as the Workload interface gives them: each call may *)
(* succeed or fail and takes any time.                                     *)
(***************************************************************************)
ProbDenom == 1000
Operations ==
    <<"fetchProfile", "updateProfile", "lockProfile", "findProfile",
      "findRelatedProfiles">>
Probabilities ==
    << <<0, 800, 100, 50, 50>>,
       <<600, 0, 200, 100, 100>>,
       <<500, 300, 0, 150, 50>>,
       <<400, 300, 200, 0, 100>>,
       <<300, 300, 200, 200, 0>> >>
OpNames == {Operations[i] : i \in 1 .. Len(Operations)}

(***************************************************************************)
(* float64.  A value is an integer number of 1/ProbDenom and carries       *)
(* FloatDigits significant decimal digits; the result of an addition is    *)
(* rounded to the nearest such value, a tie to the even one.               *)
(***************************************************************************)
FloatDigits == 2
FloatTop == 10 ^ FloatDigits
\* the spacing of the values around n
Ulp(n) ==
    LET a == IF n < 0 THEN 0 - n ELSE n
    IN  IF a < FloatTop THEN 1
        ELSE IF a < FloatTop * 10 THEN 10
        ELSE IF a < FloatTop * 100 THEN 100 ELSE 1000
FloatRound(n) ==
    LET g == Ulp(n)
        q == n \div g
        r == n % g
    IN  IF 2 * r < g THEN q * g
        ELSE IF 2 * r > g THEN (q + 1) * g
        ELSE IF q % 2 = 0 THEN q * g ELSE (q + 1) * g
FloatAdd(a, b) == FloatRound(a + b)

(***************************************************************************)
(* math/rand as used by runLoop: rand.New(rand.NewSource(seed)).  The      *)
(* source is a full-period linear congruential generator over 0..RngMod-1; *)
(* every draw steps the source and reads the new state.                    *)
(***************************************************************************)
RngMod == 8
RngMul == 5
RngInc == 1
NewSource(seed) == seed % RngMod
RngNext(s) == (RngMul * s + RngInc) % RngMod
RECURSIVE RngSkip(_, _)
RngSkip(s, n) == IF n = 0 THEN s ELSE RngSkip(RngNext(s), n - 1)
\* r.Float64(): the draw s/RngMod, in units of 1/ProbDenom.
Float64(s) == (s * ProbDenom) \div RngMod
\* r.Int31n(n): a draw scaled into 0..n-1.
Int31n(s, n) == (s * n) \div RngMod

VARIABLES
    config,          \* the configuration record read by startSpectroperf
    startPc,         \* the position of startSpectroperf
    err,             \* the error of the last validateMarkovChain / buildMarkovChain
    fatal,           \* the message of logger.Fatal, "" while none was logged
    markovChain,     \* the matrix resolved by startSpectroperf and handed to Run
    runTime,         \* Run's runTime parameter
    rampTime,        \* Run's rampTime parameter
    sleep,           \* Run's sleep parameter; 0 when config.Sleep is unset
    opDraws,         \* how many draws an operation function makes from rctx.Rand()
    numItemsArg,     \* Setup's numItemsArg parameter
    workChan,        \* Setup's buffered channel of documents
    produced,        \* the loop variable i of Setup's producer
    wpc,             \* each writer goroutine's position
    doc,             \* the document a writer received from workChan
    upsertCalls,     \* per document: the writers that passed it to coll.Upsert
    sample,          \* one call of the sampler: its row, its draw, its result
    hook,            \* the workload's Setup hook: its position, its result, the
                     \* indexes of the cluster and what the hook has done
    now,             \* wall clock, time.Now()
    cancelled,       \* ctx.Done() is closed
    wgCount,         \* the sync.WaitGroup counter
    panicked,        \* the process died of "sync: negative WaitGroup counter"
    runReturned,     \* wg.Wait() returned and Run with it
    pc,              \* each runner's position in runLoop
    timerDrained,    \* the runner has received from its time.After channel
    currOpIndex,
    nextOpIndex,
    rngState,        \* the state of the runner's rand source
    wakeAt,          \* when the runner's time.Sleep is over
    idleSince,       \* since when the runner has had no operation in flight
    attemptMetrics,
    failedMetrics,
    durationMetrics, \* the number of observations per label
    invoked,         \* how often each operation function was called
    failedReturns,   \* how often each operation function returned an error
    opHist,          \* per runner: the operations it sampled
    thinkHist,       \* per runner: the think times it slept
    opDrew,          \* per runner: an operation function drew from rctx.Rand()
    globalRandDraws  \* per runner: the draws its operation functions made from
                     \* the package-level math/rand source

startVars == <<config, startPc, err, fatal, markovChain>>
loadVars == <<numItemsArg, workChan, produced, wpc, doc, upsertCalls>>
cfgVars == <<startVars, runTime, rampTime, sleep, opDraws, loadVars, hook,
             sample>>
supVars == <<cancelled, wgCount, panicked, runReturned>>
runnerVars == <<pc, timerDrained, currOpIndex, nextOpIndex, rngState, wakeAt,
                idleSince>>
metricVars == <<attemptMetrics, failedMetrics, durationMetrics>>
histVars == <<invoked, failedReturns, opHist, thinkHist, opDrew,
              globalRandDraws>>
vars == <<cfgVars, now, supVars, runnerVars, metricVars, histVars>>

(***************************************************************************)
(* Pure functions of the engine.                                           *)
(***************************************************************************)
\* getNextOperation: walk the row accumulating cumulativeProb and return the
\* first index with randVal < cumulativeProb, else the last index.  The draw
\* randVal is s/RngMod and the probabilities are in 1/ProbDenom, so the test
\* randVal < cumulativeProb is s * ProbDenom < cumulativeProb * RngMod.
\* The walk as it would be if a draw equal to the cumulative sum were taken.
RECURSIVE WalkRowInclusive(_, _, _, _)
WalkRowInclusive(probRow, i, cumulativeProb, randVal) ==
    IF i > Len(probRow)
    THEN Len(probRow) - 1
    ELSE LET c == FloatAdd(cumulativeProb, probRow[i])
         IN  IF randVal <= c
             THEN i - 1
             ELSE WalkRowInclusive(probRow, i + 1, c, randVal)

\* The loop as it would be if it returned the position counted from one.
RECURSIVE WalkRowFromOne(_, _, _, _)
WalkRowFromOne(probRow, i, cumulativeProb, randVal) ==
    IF i > Len(probRow)
    THEN Len(probRow)
    ELSE LET c == FloatAdd(cumulativeProb, probRow[i])
         IN  IF randVal < c
             THEN i
             ELSE WalkRowFromOne(probRow, i + 1, c, randVal)

RECURSIVE WalkRow(_, _, _, _)
WalkRow(probRow, i, cumulativeProb, randVal) ==
    IF i > Len(probRow)
    THEN Len(probRow) - 1
    ELSE LET c == FloatAdd(cumulativeProb, probRow[i])
         IN  IF randVal < c
             THEN i - 1
             ELSE WalkRow(probRow, i + 1, c, randVal)

getNextOperation(curr, probabilities, s) ==
    WalkRow(probabilities[curr + 1], 1, 0, Float64(s))

\* The think time as it would be without the lower end of the range.
RandomThinkNoFloor(s) == Int31n(s, ThinkHigh - ThinkLow)

\* t := r.Int31n(5000-400) + 400
RandomThink(s) == Int31n(s, ThinkHigh - ThinkLow) + ThinkLow

\* MetricState as it would be if the ends of the ramp windows were part of them.
MetricStateClosedWindows(start, end, ramp) ==
    IF now - start <= ramp
    THEN RampUp
    ELSE IF end - now <= ramp THEN RampDown ELSE Steady

\* MetricState: the phase of the current instant.
MetricState(start, end, ramp) ==
    IF now - start < ramp
    THEN RampUp
    ELSE IF end - now < ramp THEN RampDown ELSE Steady

\* The run's start and end as the runners classify against them.
startTime == 0
endTime == startTime + runTime
currentPhase == MetricState(startTime, endTime, rampTime)

\* Think-time policy: a configured sleep is slept as it is and draws nothing;
\* otherwise the duration is drawn from the runner's generator.
FixedMode == sleep # 0
ThinkRng(s) == IF FixedMode THEN s ELSE RngNext(s)
ThinkTime(s) == IF FixedMode THEN sleep ELSE RandomThink(RngNext(s))

\* counter.Inc() / observer.Observe() on the handle of a label pair.
Inc(metric, op, phase) ==
    [metric EXCEPT ![op][phase] = @ + 1]

(***************************************************************************)
(* Startup: the pure functions of startSpectroperf.                        *)
(***************************************************************************)
Nil == "nil"
DimensionError ==
    "Markov chain must be square array with dimensions equal to number of workload functions"
RowSumError == "Markov Chain row does not sum to 1"
UnsupportedError == "Chosen only-operation is not supported by workload"

\* var total float64; for _, probability := range row { total += probability }
RECURSIVE RowTotalFrom(_, _, _)
RowTotalFrom(row, i, total) ==
    IF i > Len(row)
    THEN total
    ELSE RowTotalFrom(row, i + 1, FloatAdd(total, row[i]))
RowTotal(row) == RowTotalFrom(row, 1, 0)

\* the loop of validateMarkovChain over the rows, from row i on
RECURSIVE ValidateRows(_, _, _)
ValidateRows(workloadOperations, mChain, i) ==
    IF i > Len(mChain)
    THEN Nil
    ELSE IF Len(mChain[i]) # workloadOperations
         THEN DimensionError
         ELSE IF RowTotal(mChain[i]) # ProbDenom
              THEN RowSumError
              ELSE ValidateRows(workloadOperations, mChain, i + 1)

\* validateMarkovChain as it would be without the check of the row lengths.
validateMarkovChainRowCountOnly(workloadOperations, mChain) ==
    IF Len(mChain) # workloadOperations
    THEN DimensionError
    ELSE IF \E i \in 1 .. Len(mChain) : RowTotal(mChain[i]) # ProbDenom
         THEN RowSumError
         ELSE Nil

validateMarkovChain(workloadOperations, mChain) ==
    IF Len(mChain) # workloadOperations
    THEN DimensionError
    ELSE ValidateRows(workloadOperations, mChain, 1)

\* slices.Index: the first index of v in s, -1 when it is not there
RECURSIVE IndexFrom(_, _, _)
IndexFrom(s, v, i) ==
    IF i > Len(s) THEN -1
    ELSE IF s[i] = v THEN i - 1 ELSE IndexFrom(s, v, i + 1)
Index(s, v) == IndexFrom(s, v, 1)

\* buildMarkovChain as it would be if it built the identity matrix.
buildMarkovChainIdentity(operation, operations) ==
    LET opIndex == Index(operations, operation)
        n == Len(operations)
    IN  IF opIndex = -1
        THEN [chain |-> <<>>, err |-> UnsupportedError]
        ELSE [chain |-> [i \in 1 .. n |->
                            [j \in 1 .. n |-> IF j = i THEN ProbDenom ELSE 0]],
              err |-> Nil]

\* buildMarkovChain: one row with 1.0 at opIndex, used for every row.
buildMarkovChain(operation, operations) ==
    LET opIndex == Index(operations, operation)
        n == Len(operations)
        row == [j \in 1 .. n |-> IF j = opIndex + 1 THEN ProbDenom ELSE 0]
    IN  IF opIndex = -1
        THEN [chain |-> <<>>, err |-> UnsupportedError]
        ELSE [chain |-> [i \in 1 .. n |-> row], err |-> Nil]

(***************************************************************************)
(* Configurations that pass the startup checks of startSpectroperf.        *)
(***************************************************************************)
RunTimes == {3000}
RampTimes == {0, 1000}
Sleeps == {0, 1000}

SleepAccepted(sl) == sl = 0 \/ sl >= MinSleep
\* RampAccepted as it would be if any ramp time up to the run time passed.
RampAcceptedUpToRun(ramp, run) == ~(ramp > run)
\* The ramp check as it would be if half of the run time were rejected too.
RampAcceptedBelowHalf(ramp, run) == ~(ramp >= run \div 2)
\* if config.RampTime > config.RunTime/2 { logger.Fatal(...) }
RampAccepted(ramp, run) == ~(ramp > run \div 2)

ZeroMetric == [op \in OpNames |-> [ph \in States |-> 0]]

\* The state of Run and of its runners when Run is called.
RunStart ==
    /\ now = 0
    /\ cancelled = FALSE
    /\ wgCount = NumUsers
    /\ panicked = FALSE
    /\ runReturned = FALSE
    /\ pc = [u \in Users |-> "select"]
    /\ timerDrained = [u \in Users |-> FALSE]
    /\ currOpIndex = [u \in Users |-> 0]
    /\ nextOpIndex = [u \in Users |-> 0]
    /\ rngState = [u \in Users |-> NewSource(RandSeed + u)]
    /\ wakeAt = [u \in Users |-> 0]
    /\ idleSince = [u \in Users |-> 0]
    /\ attemptMetrics = ZeroMetric
    /\ failedMetrics = ZeroMetric
    /\ durationMetrics = ZeroMetric
    /\ invoked = [op \in OpNames |-> 0]
    /\ failedReturns = [op \in OpNames |-> 0]
    /\ opHist = [u \in Users |-> <<>>]
    /\ thinkHist = [u \in Users |-> <<>>]
    /\ opDrew = [u \in Users |-> FALSE]
    /\ globalRandDraws = [u \in Users |-> 0]

\* Setup's writers and documents; a document "u<i>" is its number i.
Workers == 0 .. (NumConc - 1)
Docs == 0 .. (MaxItems - 1)
NoDoc == -1

\* No call of the sampler is being followed.
SampleIdle == [pc |-> "idle", probRow |-> <<>>, randVal |-> 0, index |-> 0]

\* The workload's Setup hook while it is not running: both services present,
\* no index.
HookIdle ==
    [pc |-> "idle", err |-> "nil", warned |-> {}, created |-> {},
     queryService |-> TRUE, ftsService |-> TRUE,
     queryIndex |-> "absent", ftsIndex |-> "absent",
     queryAtCall |-> "absent", ftsAtCall |-> "absent",
     polls |-> 0, elapsed |-> 0, pollError |-> FALSE, otherError |-> FALSE]

\* Setup before its producer loop: an empty channel and numConc writers
\* blocked in their select.
LoadStart ==
    /\ workChan = <<>>
    /\ produced = 0
    /\ wpc = [w \in Workers |-> "select"]
    /\ doc = [w \in Workers |-> NoDoc]
    /\ upsertCalls = [d \in Docs |-> <<>>]

\* The parameters of Run, among the configurations that pass the checks.
RunParams ==
    /\ runTime \in RunTimes
    /\ rampTime \in {r \in RampTimes : RampAccepted(r, runTime)}
    /\ sleep \in {sl \in Sleeps : SleepAccepted(sl)}
    /\ opDraws \in 0 .. MaxOpDraws

\* A configuration with neither markov-chain nor only-operation.
DefaultConfig ==
    [Sleep |-> <<>>, RunTime |-> 2, RampTime |-> 0, Workload |-> "user-profile",
     MarkovChain |-> <<>>, OnlyOperation |-> ""]

\* Run is called with the built-in probabilities of the workload.
Init ==
    /\ config = DefaultConfig
    /\ startPc = "running"
    /\ err = Nil
    /\ fatal = ""
    /\ markovChain = Probabilities
    /\ RunParams
    /\ RunStart
    /\ numItemsArg = 0
    /\ LoadStart
    /\ hook = HookIdle
    /\ sample = SampleIdle

\* Run is called with the chain built for only-operation = OnlyOp.
OnlyOp == "updateProfile"
OnlyInit ==
    /\ config = [DefaultConfig EXCEPT !.OnlyOperation = OnlyOp]
    /\ startPc = "running"
    /\ err = Nil
    /\ fatal = ""
    /\ markovChain = buildMarkovChain(OnlyOp, Operations).chain
    /\ RunParams
    /\ RunStart
    /\ numItemsArg = 0
    /\ LoadStart
    /\ hook = HookIdle
    /\ sample = SampleIdle

(***************************************************************************)
(* The supervisor: Run.                                                    *)
(***************************************************************************)
\* go func() { <-sigCh; cancelFn() }()
Signal ==
    /\ ~panicked
    /\ ~cancelled
    /\ cancelled' = TRUE
    /\ UNCHANGED <<cfgVars, now, wgCount, panicked, runReturned, runnerVars,
                   metricVars, histVars>>

\* wg.Wait() returns once the counter has reached zero.
RunReturn ==
    /\ ~panicked
    /\ ~runReturned
    /\ wgCount = 0
    /\ runReturned' = TRUE
    /\ UNCHANGED <<cfgVars, now, cancelled, wgCount, panicked, runnerVars,
                   metricVars, histVars>>

\* wg.Done(): a decrement below zero panics.
WgDone ==
    /\ wgCount' = wgCount - 1
    /\ panicked' = (wgCount - 1 < 0)

(***************************************************************************)
(* The runner: runLoop.                                                    *)
(***************************************************************************)
\* The runner's time.After(runTime) channel holds its one value.
TimeoutReady(u) == now >= runTime /\ ~timerDrained[u]

\* case <-ctx.Done(): wg.Done(), and the for loop goes round again.
SelectCancel(u) ==
    /\ ~panicked
    /\ pc[u] = "select"
    /\ cancelled
    /\ WgDone
    /\ UNCHANGED <<cfgVars, now, cancelled, runReturned, runnerVars,
                   metricVars, histVars>>

\* case <-timeout: wg.Done(), and the for loop goes round again.
SelectTimeout(u) ==
    /\ ~panicked
    /\ pc[u] = "select"
    /\ TimeoutReady(u)
    /\ timerDrained' = [timerDrained EXCEPT ![u] = TRUE]
    /\ WgDone
    /\ UNCHANGED <<cfgVars, now, cancelled, runReturned, pc, currOpIndex,
                   nextOpIndex, rngState, wakeAt, idleSince, metricVars,
                   histVars>>

\* default: taken only when neither channel is ready.  The branch up to the
\* call of time.Sleep: sample the next operation, count the attempt, choose the
\* think time.
SelectDefault(u) ==
    /\ ~panicked
    /\ pc[u] = "select"
    /\ ~cancelled
    /\ ~TimeoutReady(u)
    /\ Len(opHist[u]) < MaxIter
    /\ LET s1 == RngNext(rngState[u])
           nxt == getNextOperation(currOpIndex[u], markovChain, s1)
           nextFunction == Operations[nxt + 1]
           t == ThinkTime(s1)
       IN  /\ nextOpIndex' = [nextOpIndex EXCEPT ![u] = nxt]
           /\ attemptMetrics' = Inc(attemptMetrics, nextFunction, currentPhase)
           /\ rngState' = [rngState EXCEPT ![u] = ThinkRng(s1)]
           /\ wakeAt' = [wakeAt EXCEPT ![u] = now + t]
           /\ opHist' = [opHist EXCEPT ![u] = Append(@, nxt)]
           /\ thinkHist' = [thinkHist EXCEPT ![u] = Append(@, t)]
    /\ pc' = [pc EXCEPT ![u] = "sleep"]
    /\ UNCHANGED <<cfgVars, now, supVars, timerDrained, currOpIndex,
                   idleSince, failedMetrics, durationMetrics, invoked,
                   failedReturns, opDrew, globalRandDraws>>

\* The operation functions that draw from the package-level math/rand source:
\* gofakeit.Paragraph, gofakeit.Letter and rand.Intn.
GlobalRandOps == {"updateProfile", "findProfile", "findRelatedProfiles"}

\* Invoke as it would be if the operation were called without waiting for the
\* end of the sleep.
InvokeBeforeWake(u) ==
    /\ ~panicked
    /\ pc[u] = "sleep"
    /\ wakeAt' = [wakeAt EXCEPT ![u] = 0]
    /\ invoked' = [invoked EXCEPT ![Operations[nextOpIndex[u] + 1]] = @ + 1]
    /\ globalRandDraws' =
           IF Operations[nextOpIndex[u] + 1] \in GlobalRandOps
           THEN [globalRandDraws EXCEPT ![u] = @ + 1]
           ELSE globalRandDraws
    /\ pc' = [pc EXCEPT ![u] = "exec"]
    /\ UNCHANGED <<cfgVars, now, supVars, timerDrained, currOpIndex,
                   nextOpIndex, rngState, idleSince, metricVars,
                   failedReturns, opHist, thinkHist, opDrew>>

\* time.Sleep is over: start := time.Now() and the operation function is called.
Invoke(u) ==
    /\ ~panicked
    /\ pc[u] = "sleep"
    /\ now >= wakeAt[u]
    /\ wakeAt' = [wakeAt EXCEPT ![u] = 0]
    /\ invoked' = [invoked EXCEPT ![Operations[nextOpIndex[u] + 1]] = @ + 1]
    /\ globalRandDraws' =
           IF Operations[nextOpIndex[u] + 1] \in GlobalRandOps
           THEN [globalRandDraws EXCEPT ![u] = @ + 1]
           ELSE globalRandDraws
    /\ pc' = [pc EXCEPT ![u] = "exec"]
    /\ UNCHANGED <<cfgVars, now, supVars, timerDrained, currOpIndex,
                   nextOpIndex, rngState, idleSince, metricVars,
                   failedReturns, opHist, thinkHist, opDrew>>

\* Record as it would be if a failed operation were called again at once.
RecordRetryOnFailure(u, failed) ==
    /\ ~panicked
    /\ pc[u] = "exec"
    /\ LET nextFunction == Operations[nextOpIndex[u] + 1]
       IN  /\ durationMetrics' = Inc(durationMetrics, nextFunction, currentPhase)
           /\ failedMetrics' = IF failed
                               THEN Inc(failedMetrics, nextFunction, currentPhase)
                               ELSE failedMetrics
           /\ failedReturns' = IF failed
                               THEN [failedReturns EXCEPT ![nextFunction] = @ + 1]
                               ELSE failedReturns
           /\ invoked' = IF failed
                         THEN [invoked EXCEPT ![nextFunction] = @ + 1]
                         ELSE invoked
    /\ rngState' = [rngState EXCEPT ![u] = RngSkip(@, opDraws)]
    /\ opDrew' = [opDrew EXCEPT ![u] = @ \/ opDraws > 0]
    /\ currOpIndex' = [currOpIndex EXCEPT ![u] = IF failed THEN @ ELSE nextOpIndex[u]]
    /\ idleSince' = [idleSince EXCEPT ![u] = IF failed THEN @ ELSE now]
    /\ pc' = [pc EXCEPT ![u] = IF failed THEN "exec" ELSE "select"]
    /\ UNCHANGED <<cfgVars, now, supVars, timerDrained, nextOpIndex, wakeAt,
                   attemptMetrics, opHist, thinkHist, globalRandDraws>>

\* Record as it would be if a failure drew a back-off from the runner's
\* generator.
RecordBackoffOnFailure(u, failed) ==
    /\ ~panicked
    /\ pc[u] = "exec"
    /\ LET nextFunction == Operations[nextOpIndex[u] + 1]
       IN  /\ durationMetrics' = Inc(durationMetrics, nextFunction, currentPhase)
           /\ failedMetrics' = IF failed
                               THEN Inc(failedMetrics, nextFunction, currentPhase)
                               ELSE failedMetrics
           /\ failedReturns' = IF failed
                               THEN [failedReturns EXCEPT ![nextFunction] = @ + 1]
                               ELSE failedReturns
    /\ rngState' = [rngState EXCEPT
                      ![u] = RngSkip(@, opDraws + IF failed THEN 1 ELSE 0)]
    /\ opDrew' = [opDrew EXCEPT ![u] = @ \/ opDraws > 0]
    /\ currOpIndex' = [currOpIndex EXCEPT ![u] = nextOpIndex[u]]
    /\ idleSince' = [idleSince EXCEPT ![u] = now]
    /\ pc' = [pc EXCEPT ![u] = "select"]
    /\ UNCHANGED <<cfgVars, now, supVars, timerDrained, nextOpIndex, wakeAt,
                   attemptMetrics, invoked, opHist, thinkHist, globalRandDraws>>

\* Record as it would be if the Markov state advanced only after a success.
RecordAdvanceOnSuccess(u, failed) ==
    /\ ~panicked
    /\ pc[u] = "exec"
    /\ LET nextFunction == Operations[nextOpIndex[u] + 1]
       IN  /\ durationMetrics' = Inc(durationMetrics, nextFunction, currentPhase)
           /\ failedMetrics' = IF failed
                               THEN Inc(failedMetrics, nextFunction, currentPhase)
                               ELSE failedMetrics
           /\ failedReturns' = IF failed
                               THEN [failedReturns EXCEPT ![nextFunction] = @ + 1]
                               ELSE failedReturns
    /\ rngState' = [rngState EXCEPT ![u] = RngSkip(@, opDraws)]
    /\ opDrew' = [opDrew EXCEPT ![u] = @ \/ opDraws > 0]
    /\ currOpIndex' = [currOpIndex EXCEPT
                          ![u] = IF failed THEN @ ELSE nextOpIndex[u]]
    /\ idleSince' = [idleSince EXCEPT ![u] = now]
    /\ pc' = [pc EXCEPT ![u] = "select"]
    /\ UNCHANGED <<cfgVars, now, supVars, timerDrained, nextOpIndex, wakeAt,
                   attemptMetrics, invoked, opHist, thinkHist, globalRandDraws>>

\* The operation function returns err, having made its draws from rctx.Rand(),
\* which shares the runner's source; the duration is observed, a failure is
\* counted, and currOpIndex = nextOpIndex.
Record(u, failed) ==
    /\ ~panicked
    /\ pc[u] = "exec"
    /\ LET nextFunction == Operations[nextOpIndex[u] + 1]
       IN  /\ durationMetrics' = Inc(durationMetrics, nextFunction, currentPhase)
           /\ failedMetrics' = IF failed
                               THEN Inc(failedMetrics, nextFunction, currentPhase)
                               ELSE failedMetrics
           /\ failedReturns' = IF failed
                               THEN [failedReturns EXCEPT ![nextFunction] = @ + 1]
                               ELSE failedReturns
    /\ rngState' = [rngState EXCEPT ![u] = RngSkip(@, opDraws)]
    /\ opDrew' = [opDrew EXCEPT ![u] = @ \/ opDraws > 0]
    /\ currOpIndex' = [currOpIndex EXCEPT ![u] = nextOpIndex[u]]
    /\ idleSince' = [idleSince EXCEPT ![u] = now]
    /\ pc' = [pc EXCEPT ![u] = "select"]
    /\ UNCHANGED <<cfgVars, now, supVars, timerDrained, nextOpIndex, wakeAt,
                   attemptMetrics, invoked, opHist, thinkHist, globalRandDraws>>

OpReturn(u) ==
    \E failed \in BOOLEAN : Record(u, failed)

(***************************************************************************)
(* The clock.  The goroutines are observed at the instants 0, Quantum,     *)
(* 2 * Quantum, ...; a sleep that is over between two instants is noticed  *)
(* at the later one (time.Sleep sleeps at least its duration).             *)
(***************************************************************************)
Advance ==
    /\ ~panicked
    /\ now + Quantum <= MaxTicks * Quantum
    /\ now' = now + Quantum
    /\ UNCHANGED <<cfgVars, supVars, runnerVars, metricVars, histVars>>

Next ==
    \/ Signal
    \/ RunReturn
    \/ Advance
    \/ \E u \in Users : SelectCancel(u)
    \/ \E u \in Users : SelectTimeout(u)
    \/ \E u \in Users : SelectDefault(u)
    \/ \E u \in Users : Invoke(u)
    \/ \E u \in Users : OpReturn(u)

Spec == Init /\ [][Next]_vars

(***************************************************************************)
(* The same system under the scheduling the Go runtime gives: every        *)
(* goroutine that can take a step eventually takes it, and the clock keeps *)
(* moving.  An external interrupt is never required.                       *)
(***************************************************************************)
RunnerStep(u) ==
    \/ SelectCancel(u)
    \/ SelectTimeout(u)
    \/ SelectDefault(u)
    \/ Invoke(u)
    \/ OpReturn(u)

FairSpec ==
    /\ Spec
    /\ WF_vars(Advance)
    /\ WF_vars(RunReturn)
    /\ \A u \in Users : WF_vars(RunnerStep(u))

\* Run with the single-operation chain.
OnlySpec == OnlyInit /\ [][Next]_vars

\* Run with the chain of a workload whose Probabilities() are the built-in
\* ones, have rows that sum to less than 1, or have a negative entry.
DeficientChain ==
    << <<0, 500, 100, 0, 0>>,
       <<250, 0, 250, 0, 0>>,
       <<500, 300, 0, 150, 50>>,
       <<400, 300, 200, 0, 100>>,
       <<0, 0, 0, 0, 0>> >>
NegativeChain ==
    << <<1500, -500, 0, 0, 0>>,
       <<0, 1500, -500, 0, 0>>,
       <<500, 300, 0, 150, 50>>,
       <<400, 300, 200, 0, 100>>,
       <<300, 300, 200, 200, 0>> >>
SampleChains == {Probabilities, DeficientChain, NegativeChain}
SampleInit ==
    /\ config = DefaultConfig
    /\ startPc = "running"
    /\ err = Nil
    /\ fatal = ""
    /\ markovChain \in SampleChains
    /\ runTime \in RunTimes
    /\ rampTime = 0
    /\ sleep \in {sl \in Sleeps : SleepAccepted(sl)}
    /\ opDraws = 0
    /\ RunStart
    /\ numItemsArg = 0
    /\ LoadStart
    /\ hook = HookIdle
    /\ sample = SampleIdle
SampleSpec == SampleInit /\ [][Next]_vars

(***************************************************************************)
(* Startup: startSpectroperf from the ramp check to the call of Run.       *)
(***************************************************************************)
ParseFatal == "parsing sleep duration from config"
SleepFatal ==
    "sleep cannot be less than 100ms, to increase throughput increase number of users"
RampFatal == "Ramp time cannot be greater than half of the total runtime"
UnknownWorkloadFatal == "Unknown workload type"
InvalidChainFatal == "invalid markov chain"
BothFatal == "cannot specify only-operation and a markov chain"
BuildFatal == "building markov chain"

runVars == <<runTime, rampTime, sleep, opDraws, loadVars, hook, sample, now,
             supVars, runnerVars, metricVars, histVars>>

\* Configurations read from the config file: rows of len(w.Operations())
\* entries and one shorter row; chains of one row less, of the right number
\* of rows and of one row more, and no chain.
ConfigRows ==
    { <<0, 800, 100, 50, 50>>,
      <<1500, -500, 0, 0, 0>>,
      <<500, 400, 200, 0, 0>>,
      <<250, 250, 250, 250>>,
      <<1000, 1, 0, 0, 0>>,
      <<900, 14, 14, 72, 0>> }
ConfigTails ==
    { [i \in 1 .. n |-> Probabilities[i]] : n \in 2 .. 4 }
ConfigChains ==
    {<<>>} \cup {<<r1, r2>> \o tl : r1 \in ConfigRows, r2 \in ConfigRows,
                                    tl \in ConfigTails}
OnlyOperations == {"", OnlyOp, "deleteProfile"}

\* config.Sleep, a duration string: <<>> is "", <<n>> is a number without
\* unit and <<n, unit>> a number followed by a unit.
ConfigSleeps ==
    {<<>>, <<0>>, <<99, "ms">>, <<100, "ms">>, <<1, "s">>, <<100>>, <<1, "sec">>}

\* config.Workload, and the names the switch of startSpectroperf knows.
ConfigWorkloads == {"user-profile", "basic"}
KnownWorkloads == {"user-profile", "user-profile-dapi"}

StartInit ==
    /\ config \in [Sleep : ConfigSleeps,
                   RunTime : 1 .. MaxMinutes,
                   RampTime : 0 .. MaxMinutes,
                   Workload : ConfigWorkloads,
                   MarkovChain : ConfigChains,
                   OnlyOperation : OnlyOperations]
    /\ startPc = "sleep"
    /\ err = Nil
    /\ fatal = ""
    /\ markovChain = <<>>
    /\ runTime = 3000 /\ rampTime = 0 /\ sleep = 0 /\ opDraws = 0
    /\ RunStart
    /\ numItemsArg = 0
    /\ LoadStart
    /\ hook = HookIdle
    /\ sample = SampleIdle

\* time.ParseDuration: "0" is 0, a number needs a unit, the unit must be a
\* known one; the duration in milliseconds.
UnitMillis(unit) == IF unit = "ms" THEN 1 ELSE IF unit = "s" THEN 1000 ELSE 0
ParseDuration(str) ==
    IF Len(str) = 1
    THEN IF str[1] = 0
         THEN [d |-> 0, err |-> Nil]
         ELSE [d |-> 0, err |-> "time: missing unit in duration"]
    ELSE IF UnitMillis(str[2]) = 0
         THEN [d |-> 0, err |-> "time: unknown unit in duration"]
         ELSE [d |-> str[1] * UnitMillis(str[2]), err |-> Nil]

startRest == <<config, markovChain, runTime, rampTime, opDraws, loadVars,
               hook, sample, now, supVars, runnerVars, metricVars, histVars>>

\* CheckSleep as it would be if a sleep of exactly the minimum were rejected.
CheckSleepAboveMinimum ==
    /\ startPc = "sleep"
    /\ IF config.Sleep = <<>>
       THEN startPc' = "ramp" /\ UNCHANGED <<sleep, err, fatal>>
       ELSE LET p == ParseDuration(config.Sleep)
            IN  /\ sleep' = p.d
                /\ err' = p.err
                /\ IF p.err # Nil
                   THEN startPc' = "fatal" /\ fatal' = ParseFatal
                   ELSE IF p.d <= MinSleep
                        THEN startPc' = "fatal" /\ fatal' = SleepFatal
                        ELSE startPc' = "ramp" /\ fatal' = fatal
    /\ UNCHANGED startRest

\* if config.Sleep == "" { random } else { parse; fatal below 100 ms }
CheckSleep ==
    /\ startPc = "sleep"
    /\ IF config.Sleep = <<>>
       THEN startPc' = "ramp" /\ UNCHANGED <<sleep, err, fatal>>
       ELSE LET p == ParseDuration(config.Sleep)
            IN  /\ sleep' = p.d
                /\ err' = p.err
                /\ IF p.err # Nil
                   THEN startPc' = "fatal" /\ fatal' = ParseFatal
                   ELSE IF p.d < MinSleep
                        THEN startPc' = "fatal" /\ fatal' = SleepFatal
                        ELSE startPc' = "ramp" /\ fatal' = fatal
    /\ UNCHANGED startRest

\* if config.RampTime > config.RunTime/2 { logger.Fatal(...) }
CheckRampTime ==
    /\ startPc = "ramp"
    /\ IF RampAccepted(config.RampTime, config.RunTime)
       THEN startPc' = "workload" /\ fatal' = fatal
       ELSE startPc' = "fatal" /\ fatal' = RampFatal
    /\ UNCHANGED <<config, err, markovChain, runVars>>

\* SelectWorkload as it would be if an unknown workload were only logged.
SelectWorkloadLenient ==
    /\ startPc = "workload"
    /\ startPc' = "validate"
    /\ fatal' = fatal
    /\ UNCHANGED <<config, err, markovChain, runVars>>

\* switch config.Workload { ...; default: logger.Fatal("Unknown workload type") }
SelectWorkload ==
    /\ startPc = "workload"
    /\ IF config.Workload \in KnownWorkloads
       THEN startPc' = "validate" /\ fatal' = fatal
       ELSE startPc' = "fatal" /\ fatal' = UnknownWorkloadFatal
    /\ UNCHANGED <<config, err, markovChain, runVars>>

\* if len(config.MarkovChain) != 0 { validate; markovChain = config.MarkovChain }
ValidateConfigChain ==
    /\ startPc = "validate"
    /\ IF Len(config.MarkovChain) # 0
       THEN LET e == validateMarkovChain(Len(Operations), config.MarkovChain)
            IN  /\ err' = e
                /\ IF e # Nil
                   THEN /\ startPc' = "fatal"
                        /\ fatal' = InvalidChainFatal
                        /\ markovChain' = markovChain
                   ELSE /\ startPc' = "only"
                        /\ fatal' = fatal
                        /\ markovChain' = config.MarkovChain
       ELSE /\ startPc' = "only"
            /\ UNCHANGED <<err, fatal, markovChain>>
    /\ UNCHANGED <<config, runVars>>

\* ApplyOnlyOperation as it would be without the check that no chain is
\* configured.
ApplyOnlyOperationOverride ==
    /\ startPc = "only"
    /\ IF config.OnlyOperation # ""
       THEN LET b == buildMarkovChain(config.OnlyOperation, Operations)
            IN  /\ err' = b.err
                /\ markovChain' = b.chain
                /\ IF b.err # Nil
                   THEN startPc' = "fatal" /\ fatal' = BuildFatal
                   ELSE startPc' = "default" /\ fatal' = fatal
       ELSE /\ startPc' = "default"
            /\ UNCHANGED <<err, fatal, markovChain>>
    /\ UNCHANGED <<config, runVars>>

\* if config.OnlyOperation != "" { fatal if a chain is configured; build }
ApplyOnlyOperation ==
    /\ startPc = "only"
    /\ IF config.OnlyOperation # ""
       THEN IF Len(config.MarkovChain) # 0
            THEN /\ startPc' = "fatal"
                 /\ fatal' = BothFatal
                 /\ UNCHANGED <<err, markovChain>>
            ELSE LET b == buildMarkovChain(config.OnlyOperation, Operations)
                 IN  /\ err' = b.err
                     /\ markovChain' = b.chain
                     /\ IF b.err # Nil
                        THEN startPc' = "fatal" /\ fatal' = BuildFatal
                        ELSE startPc' = "default" /\ fatal' = fatal
       ELSE /\ startPc' = "default"
            /\ UNCHANGED <<err, fatal, markovChain>>
    /\ UNCHANGED <<config, runVars>>

\* DefaultProbabilities as it would be if the built-in probabilities were
\* always taken.
DefaultProbabilitiesAlways ==
    /\ startPc = "default"
    /\ markovChain' = Probabilities
    /\ startPc' = "setup"
    /\ UNCHANGED <<config, err, fatal, runVars>>

\* if len(markovChain) == 0 { markovChain = w.Probabilities() }
DefaultProbabilities ==
    /\ startPc = "default"
    /\ markovChain' =
           IF Len(markovChain) = 0 THEN Probabilities ELSE markovChain
    /\ startPc' = "setup"
    /\ UNCHANGED <<config, err, fatal, runVars>>

\* workload.InitMetrics(w); workload.Setup(...); time.Sleep(5 * time.Second):
\* with numItemsArg = 0 and a workload Setup that succeeds, in one step.
CallSetup ==
    /\ startPc = "setup"
    /\ startPc' = "run"
    /\ UNCHANGED <<config, err, fatal, markovChain, runVars>>

\* workload.Run(w, logger, markovChain, ...)
CallRun ==
    /\ startPc = "run"
    /\ ~panicked
    /\ startPc' = "running"
    /\ UNCHANGED <<config, err, fatal, markovChain, runVars>>

StartNext ==
    \/ CheckSleep
    \/ CheckRampTime
    \/ SelectWorkload
    \/ ValidateConfigChain
    \/ ApplyOnlyOperation
    \/ DefaultProbabilities
    \/ CallSetup
    \/ CallRun

StartSpec == StartInit /\ [][StartNext]_vars

(***************************************************************************)
(* Run with each matrix the three branches of the resolution can hand to   *)
(* it: a configured chain that validateMarkovChain accepts, the chain      *)
(* built for only-operation, and the built-in probabilities.               *)
(***************************************************************************)
LastOpChain ==
    [i \in 1 .. Len(Operations) |->
        [j \in 1 .. Len(Operations) |->
            IF j = Len(Operations) THEN ProbDenom ELSE 0]]
ResolvedChains ==
    {c \in {NegativeChain, DeficientChain, LastOpChain} :
        validateMarkovChain(Len(Operations), c) = Nil}
        \cup {buildMarkovChain(OnlyOp, Operations).chain}
        \cup {Probabilities}
ResolvedInit ==
    /\ config = DefaultConfig
    /\ startPc = "running"
    /\ err = Nil
    /\ fatal = ""
    /\ markovChain \in ResolvedChains
    /\ runTime \in RunTimes
    /\ rampTime = 0
    /\ sleep \in {sl \in Sleeps : SleepAccepted(sl)}
    /\ opDraws = 0
    /\ RunStart
    /\ numItemsArg = 0
    /\ LoadStart
    /\ hook = HookIdle
    /\ sample = SampleIdle
ResolvedSpec == ResolvedInit /\ [][Next]_vars

(***************************************************************************)
(* Setup: the document load, from the call of workload.Setup to the call   *)
(* of workload.Run.  Setup's WaitGroup is added to and never waited on,    *)
(* and nothing sends on or closes shutdownChan or workChan.                *)
(***************************************************************************)
UpsertPanic == "Data load upsert failed."
SetupPanic == "failed to setup workload"

\* shutdownChan := make(chan struct{}, numConc): nothing is ever sent on it.
shutdownChan == <<>>

\* everything of Run but the death of the process
engineVars == <<runTime, rampTime, sleep, opDraws, sample, now, cancelled, wgCount,
                runReturned, runnerVars, metricVars, histVars>>

\* startSpectroperf has passed its checks and calls Setup.
SetupInit ==
    /\ config = DefaultConfig
    /\ startPc = "setup"
    /\ err = Nil
    /\ fatal = ""
    /\ markovChain = Probabilities
    /\ runTime = 3000 /\ rampTime = 0 /\ sleep = 0 /\ opDraws = 0
    /\ RunStart
    /\ numItemsArg \in 0 .. MaxItems
    /\ LoadStart
    /\ hook = HookIdle
    /\ sample = SampleIdle

\* workChan <- w.GenerateDocument(fmt.Sprintf("u%d", i)); blocks on a full buffer
Produce ==
    /\ startPc = "setup"
    /\ ~panicked
    /\ produced < numItemsArg
    /\ Len(workChan) < NumConc
    /\ workChan' = Append(workChan, produced)
    /\ produced' = produced + 1
    /\ UNCHANGED <<startVars, numItemsArg, wpc, doc, upsertCalls, panicked,
                   engineVars, hook>>

\* WorkerSelect as it would be if the receive left the document in the channel.
WorkerSelectPeek(w) ==
    /\ ~panicked
    /\ wpc[w] = "select"
    /\ LET ready == {c \in {"work", "shutdown"} :
                        IF c = "work" THEN workChan # <<>>
                                      ELSE shutdownChan # <<>>}
       IN  \E c \in ready :
               IF c = "work"
               THEN /\ doc' = [doc EXCEPT ![w] = Head(workChan)]
                    /\ workChan' = workChan
                    /\ wpc' = [wpc EXCEPT ![w] = "upsert"]
                    /\ upsertCalls' =
                           [upsertCalls EXCEPT ![Head(workChan)] = Append(@, w)]
               ELSE /\ wpc' = [wpc EXCEPT ![w] = "exited"]
                    /\ UNCHANGED <<workChan, doc, upsertCalls>>
    /\ UNCHANGED <<startVars, numItemsArg, produced, panicked, engineVars, hook>>

\* select { case doc := <-workChan: coll.Upsert(doc.Name, doc.Data, nil)
\*          case <-shutdownChan: wg.Done(); return }
WorkerSelect(w) ==
    /\ ~panicked
    /\ wpc[w] = "select"
    /\ LET ready == {c \in {"work", "shutdown"} :
                        IF c = "work" THEN workChan # <<>>
                                      ELSE shutdownChan # <<>>}
       IN  \E c \in ready :
               IF c = "work"
               THEN /\ doc' = [doc EXCEPT ![w] = Head(workChan)]
                    /\ workChan' = Tail(workChan)
                    /\ wpc' = [wpc EXCEPT ![w] = "upsert"]
                    /\ upsertCalls' =
                           [upsertCalls EXCEPT ![Head(workChan)] = Append(@, w)]
               ELSE /\ wpc' = [wpc EXCEPT ![w] = "exited"]
                    /\ UNCHANGED <<workChan, doc, upsertCalls>>
    /\ UNCHANGED <<startVars, numItemsArg, produced, panicked, engineVars, hook>>

\* _, err := coll.Upsert(...); if err != nil { panic(...) }
UpsertReturn(w, failed) ==
    /\ ~panicked
    /\ wpc[w] = "upsert"
    /\ IF failed
       THEN /\ panicked' = TRUE
            /\ err' = UpsertPanic
            /\ UNCHANGED <<wpc, doc>>
       ELSE /\ wpc' = [wpc EXCEPT ![w] = "select"]
            /\ doc' = [doc EXCEPT ![w] = NoDoc]
            /\ UNCHANGED <<panicked, err>>
    /\ UNCHANGED <<config, startPc, fatal, markovChain>>
    /\ UNCHANGED <<numItemsArg, workChan, produced, upsertCalls, engineVars, hook>>

\* the producer loop is over: err := w.Setup()
InvokeHook ==
    /\ startPc = "setup"
    /\ ~panicked
    /\ produced = numItemsArg
    /\ startPc' = "hook"
    /\ UNCHANGED <<config, err, fatal, markovChain, loadVars, panicked,
                   engineVars, hook>>

\* if err != nil { panic(...) }; Setup returns
HookReturn(failed) ==
    /\ startPc = "hook"
    /\ ~panicked
    /\ IF failed
       THEN /\ panicked' = TRUE
            /\ err' = SetupPanic
            /\ startPc' = startPc
       ELSE /\ startPc' = "warmup"
            /\ UNCHANGED <<panicked, err>>
    /\ UNCHANGED <<config, fatal, markovChain, loadVars, engineVars, hook>>

\* time.Sleep(5 * time.Second)
WarmupSleep ==
    /\ startPc = "warmup"
    /\ ~panicked
    /\ startPc' = "run"
    /\ UNCHANGED <<config, err, fatal, markovChain, runVars>>

Producer ==
    \/ Produce
    \/ InvokeHook
    \/ \E failed \in BOOLEAN : HookReturn(failed)
    \/ WarmupSleep
    \/ CallRun

Writer(w) ==
    \/ WorkerSelect(w)
    \/ \E failed \in BOOLEAN : UpsertReturn(w, failed)

SetupNext ==
    \/ Producer
    \/ \E w \in Workers : Writer(w)

SetupSpec == SetupInit /\ [][SetupNext]_vars

\* The main goroutine and every writer keep being scheduled.
SetupFairSpec ==
    /\ SetupSpec
    /\ WF_vars(Producer)
    /\ \A w \in Workers : WF_vars(Writer(w))

(***************************************************************************)
(* The whole start: the checks of startSpectroperf followed by the         *)
(* document load, the workload hook and the call of Run.                   *)
(***************************************************************************)
BootInit ==
    /\ config \in [Sleep : ConfigSleeps,
                   RunTime : 1 .. MaxMinutes,
                   RampTime : 0 .. MaxMinutes,
                   Workload : ConfigWorkloads,
                   MarkovChain : ConfigChains,
                   OnlyOperation : OnlyOperations]
    /\ startPc = "sleep"
    /\ err = Nil
    /\ fatal = ""
    /\ markovChain = <<>>
    /\ runTime = 3000 /\ rampTime = 0 /\ sleep = 0 /\ opDraws = 0
    /\ RunStart
    /\ numItemsArg \in 0 .. 1
    /\ LoadStart
    /\ hook = HookIdle
    /\ sample = SampleIdle

BootNext ==
    \/ CheckSleep
    \/ CheckRampTime
    \/ SelectWorkload
    \/ ValidateConfigChain
    \/ ApplyOnlyOperation
    \/ DefaultProbabilities
    \/ Producer
    \/ \E w \in Workers : Writer(w)

BootSpec == BootInit /\ [][BootNext]_vars

(***************************************************************************)
(* The workload's Setup hook of basic and basicDapi: CreateBasicQueryIndex *)
(* and EnsureBasicFtsIndex against a cluster whose answers are inputs.     *)
(***************************************************************************)
FtsDeadline == 60
FtsPause == 10
CreateError == "failed to create basicIndex"
GetAllError == "failed to get all indexes"
StateError == "unexpected index state"
GetIndexError == "get index failed"
UpsertIndexError == "upsert index failed"
FtsTimeoutError == "timed out waiting for fts index to be ready"

\* The hook is called with the query index and the search index in any state
\* and each service present or not.
IndexInit ==
    /\ config = DefaultConfig
    /\ startPc = "hook"
    /\ err = Nil
    /\ fatal = ""
    /\ markovChain = Probabilities
    /\ runTime = 3000 /\ rampTime = 0 /\ sleep = 0 /\ opDraws = 0
    /\ RunStart
    /\ numItemsArg = 0
    /\ LoadStart
    /\ sample = SampleIdle
    /\ \E qs \in BOOLEAN, fs \in BOOLEAN,
          qi \in {"absent", "building", "online"}, fi \in {"absent", "present"} :
           hook = [HookIdle EXCEPT !.pc = "createQuery",
                                   !.queryService = qs, !.ftsService = fs,
                                   !.queryIndex = qi, !.ftsIndex = fi,
                                   !.queryAtCall = qi, !.ftsAtCall = fi]

\* The answers the cluster can give to CreateIndex(IgnoreIfExists: true).
CreateIndexAnswers ==
    IF ~hook.queryService THEN {"ErrServiceNotAvailable"}
    ELSE IF hook.queryIndex # "absent" THEN {"nil"}
    ELSE {"nil", "ErrAmbiguousTimeout", "other"}

\* mgr.CreateIndex(...) and the switch on its error
CreateBasicQueryIndex(answer) ==
    /\ hook.pc = "createQuery"
    /\ answer \in CreateIndexAnswers
    /\ hook' =
           IF answer = "nil"
           THEN [hook EXCEPT !.pc = "getFts",
                             !.queryIndex =
                                 IF @ = "absent" THEN "online" ELSE @,
                             !.created =
                                 IF hook.queryIndex = "absent"
                                 THEN @ \cup {"query"} ELSE @]
           ELSE IF answer = "ErrAmbiguousTimeout"
           THEN [hook EXCEPT !.pc = "waitQuery", !.queryIndex = "building",
                             !.created = @ \cup {"query"}]
           ELSE IF answer = "ErrServiceNotAvailable"
           THEN [hook EXCEPT !.pc = "getFts", !.warned = @ \cup {"query"}]
           ELSE [hook EXCEPT !.pc = "returned", !.err = CreateError,
                             !.otherError = TRUE]
    /\ UNCHANGED <<startVars, loadVars, panicked, engineVars>>

\* One round of WaitForIndexToBuild: GetAllIndexes and the switch on the
\* state of the index, which the cluster has meanwhile built, kept building
\* or given up.
WaitForIndexToBuild(failed, state) ==
    /\ hook.pc = "waitQuery"
    /\ state \in {"building", "online", "offline"}
    /\ state = "building" => hook.polls < MaxPolls
    /\ hook' =
           IF failed
           THEN [hook EXCEPT !.pc = "returned", !.err = GetAllError,
                             !.otherError = TRUE]
           ELSE IF state = "online"
           THEN [hook EXCEPT !.pc = "getFts", !.queryIndex = state]
           ELSE IF state = "building"
           THEN [hook EXCEPT !.polls = @ + 1]
           ELSE [hook EXCEPT !.pc = "returned", !.err = StateError,
                             !.queryIndex = state, !.otherError = TRUE]
    /\ UNCHANGED <<startVars, loadVars, panicked, engineVars>>

\* The answers the cluster can give to GetIndex.
GetIndexAnswers ==
    IF ~hook.ftsService THEN {"ErrServiceNotAvailable"}
    ELSE IF hook.ftsIndex = "present" THEN {"nil", "other"}
    ELSE {"ErrIndexNotFound", "other"}

\* mgr.GetIndex(indexName, nil) and the switch on its error
GetIndex(answer) ==
    /\ hook.pc = "getFts"
    /\ answer \in GetIndexAnswers
    /\ hook' =
           IF answer = "nil"
           THEN [hook EXCEPT !.pc = "returned"]
           ELSE IF answer = "ErrIndexNotFound"
           THEN [hook EXCEPT !.pc = "upsertFts"]
           ELSE IF answer = "ErrServiceNotAvailable"
           THEN [hook EXCEPT !.pc = "returned", !.warned = @ \cup {"fts"}]
           ELSE [hook EXCEPT !.pc = "returned", !.err = GetIndexError,
                             !.otherError = TRUE]
    /\ UNCHANGED <<startVars, loadVars, panicked, engineVars>>

\* err = mgr.UpsertIndex(...); if err != nil { return err }
UpsertIndex(failed) ==
    /\ hook.pc = "upsertFts"
    /\ hook' =
           IF failed
           THEN [hook EXCEPT !.pc = "returned", !.err = UpsertIndexError,
                             !.otherError = TRUE]
           ELSE [hook EXCEPT !.pc = "pollFts", !.ftsIndex = "present",
                             !.created = @ \cup {"fts"}, !.elapsed = 0]
    /\ UNCHANGED <<startVars, loadVars, panicked, engineVars>>

\* One round of the loop for time.Now().Before(end): the indexed-document
\* count, and a pause of ten seconds unless it is positive.
GetIndexedDocumentsCount(count, failed) ==
    /\ hook.pc = "pollFts"
    /\ hook.elapsed < FtsDeadline
    /\ failed => count = 0
    /\ hook' =
           IF count > 0
           THEN [hook EXCEPT !.pc = "returned"]
           ELSE [hook EXCEPT !.elapsed = @ + FtsPause, !.polls = @ + 1,
                             !.pollError = @ \/ failed]
    /\ UNCHANGED <<startVars, loadVars, panicked, engineVars>>

\* the loop is over: return fmt.Errorf("timed out waiting ...")
FtsTimeout ==
    /\ hook.pc = "pollFts"
    /\ ~(hook.elapsed < FtsDeadline)
    /\ hook' = [hook EXCEPT !.pc = "returned", !.err = FtsTimeoutError]
    /\ UNCHANGED <<startVars, loadVars, panicked, engineVars>>

IndexNext ==
    \/ \E answer \in {"nil", "ErrAmbiguousTimeout", "ErrServiceNotAvailable",
                      "other"} : CreateBasicQueryIndex(answer)
    \/ \E failed \in BOOLEAN, state \in {"building", "online", "offline"} :
           WaitForIndexToBuild(failed, state)
    \/ \E answer \in {"nil", "ErrIndexNotFound", "ErrServiceNotAvailable",
                      "other"} : GetIndex(answer)
    \/ \E failed \in BOOLEAN : UpsertIndex(failed)
    \/ \E count \in {0, 1}, failed \in BOOLEAN :
           GetIndexedDocumentsCount(count, failed)
    \/ FtsTimeout

IndexSpec == IndexInit /\ [][IndexNext]_vars

(***************************************************************************)
(* getNextOperation on its own: one call with any row and any value that   *)
(* r.Float64() can return, which are the values of the float grid in       *)
(* [0, 1).                                                                 *)
(***************************************************************************)
DrawRows == ConfigRows \cup {Probabilities[i] : i \in 1 .. Len(Probabilities)}
DrawValues == {n \in 0 .. (ProbDenom - 1) : FloatRound(n) = n}

DrawInit ==
    /\ config = DefaultConfig
    /\ startPc = "running"
    /\ err = Nil
    /\ fatal = ""
    /\ markovChain = Probabilities
    /\ runTime = 3000 /\ rampTime = 0 /\ sleep = 0 /\ opDraws = 0
    /\ RunStart
    /\ numItemsArg = 0
    /\ LoadStart
    /\ hook = HookIdle
    /\ \E row \in DrawRows, u \in DrawValues :
           sample = [pc |-> "call", probRow |-> row, randVal |-> u, index |-> 0]

\* the loop over probRow and the fallback
SampleRow ==
    /\ sample.pc = "call"
    /\ sample' = [sample EXCEPT
                     !.pc = "returned",
                     !.index = WalkRow(sample.probRow, 1, 0, sample.randVal)]
    /\ UNCHANGED <<startVars, runTime, rampTime, sleep, opDraws, loadVars, hook,
                   now, supVars, runnerVars, metricVars, histVars>>

DrawNext == SampleRow

DrawSpec == DrawInit /\ [][DrawNext]_vars

(***************************************************************************)
(* MetricState on its own: the clock of a run with any accepted ramp time, *)
(* at a finer grain than the runners are observed at.                      *)
(***************************************************************************)
PhaseRunTimes == {2000, 3000, 4000}
PhaseRampTimes == {0, 500, 1000, 1500, 2000, 3000}

PhaseInit ==
    /\ config = DefaultConfig
    /\ startPc = "running"
    /\ err = Nil
    /\ fatal = ""
    /\ markovChain = Probabilities
    /\ runTime \in PhaseRunTimes
    /\ rampTime \in {r \in PhaseRampTimes : RampAccepted(r, runTime)}
    /\ sleep = 0
    /\ opDraws = 0
    /\ RunStart
    /\ numItemsArg = 0
    /\ LoadStart
    /\ hook = HookIdle
    /\ sample = SampleIdle

\* time.Now() moves on
PhaseTick ==
    /\ now + PhaseStep <= MaxTicks * Quantum
    /\ now' = now + PhaseStep
    /\ UNCHANGED <<cfgVars, supVars, runnerVars, metricVars, histVars>>

PhaseNext == PhaseTick

PhaseSpec == PhaseInit /\ [][PhaseNext]_vars

(***************************************************************************)
(* Totals over the phase labels.                                           *)
(***************************************************************************)
OverPhases(metric, op) ==
    metric[op][RampUp] + metric[op][Steady] + metric[op][RampDown]
AttemptedOf(op) == OverPhases(attemptMetrics, op)
FailedOf(op) == OverPhases(failedMetrics, op)
ObservedOf(op) == OverPhases(durationMetrics, op)
nextFunctionOf(u) == Operations[nextOpIndex[u] + 1]

(***************************************************************************)
(* Cancellation, deadline and join.                                        *)
(***************************************************************************)
\* C1: once the root context is cancelled, no runner begins invoking an
\* operation function: a runner that is not executing an operation when the
\* context is cancelled never enters one afterwards.
C1_NoStartAfterCancel ==
    [][cancelled => \A u \in Users : pc[u] # "exec" => pc'[u] # "exec"]_vars

\* C2: once the run deadline has fired, a runner performs no further loop
\* iteration: it samples no operation, counts no attempt and invokes no
\* operation function.
C2_NoIterationAfterDeadline ==
    [][now >= runTime =>
         \A u \in Users :
             /\ opHist'[u] = opHist[u]
             /\ attemptMetrics' = attemptMetrics
             /\ (pc[u] # "exec" => pc'[u] # "exec")]_vars

\* C3: when Run has returned, every runner it spawned has left its loop.
C3_NoRunnerLeak ==
    runReturned => \A u \in Users : pc[u] = "exited"

\* C4: once the deadline has elapsed or an interrupt was delivered, Run
\* eventually returns normally: every runner has finished and the join
\* completed without a panic.
C4_RunEventuallyReturns ==
    (cancelled \/ now >= runTime)
        ~> (runReturned /\ ~panicked /\ \A u \in Users : pc[u] = "exited")

(***************************************************************************)
(* Metrics.                                                                *)
(***************************************************************************)
\* C5: for every (operation, phase) label pair, operations_failed_total is at
\* most operations_total.
C5_FailedAtMostAttempted ==
    \A op \in OpNames, ph \in States :
        failedMetrics[op][ph] <= attemptMetrics[op][ph]

\* C10: when Run has returned, the operations_total of every operation equals
\* the number of times its function was invoked.
C10_NoPhantomIncrements ==
    runReturned => \A op \in OpNames : AttemptedOf(op) = invoked[op]

\* C6: every attempt counted by a runner is followed, before the runner's next
\* attempt or its exit, by exactly one duration observation for the same
\* operation, whether the operation succeeded or failed: the attempts of an
\* operation are its observations plus the runners that are in the middle of
\* an iteration on it, and once the join of Run has completed, which is when
\* all runners have finished, attempts and observations are equal.
MidIteration(op) ==
    {u \in Users : pc[u] \in {"sleep", "exec"} /\ nextFunctionOf(u) = op}
C6_ObservationPerAttempt ==
    \A op \in OpNames :
        /\ AttemptedOf(op) = ObservedOf(op) + Cardinality(MidIteration(op))
        /\ runReturned => ObservedOf(op) = AttemptedOf(op)

\* C7: when an operation function returns a failure, the runner that called
\* it counts the failure exactly once, observes the duration, does not call
\* the function again and goes to the top of its loop with the Markov state
\* advanced.
RECURSIVE SumFrom(_, _)
SumFrom(f, i) ==
    IF i > Len(Operations) THEN 0 ELSE f[Operations[i]] + SumFrom(f, i + 1)
SumOver(f) == SumFrom(f, 1)
FailedTotal == SumOver([op \in OpNames |-> FailedOf(op)])
ObservedTotal == SumOver([op \in OpNames |-> ObservedOf(op)])
C7_FailureAccounting ==
    [][failedReturns' # failedReturns =>
         \E u \in Users :
             LET op == nextFunctionOf(u)
             IN  /\ pc[u] = "exec"
                 /\ failedReturns' = [failedReturns EXCEPT ![op] = @ + 1]
                 /\ FailedOf(op)' = FailedOf(op) + 1
                 /\ FailedTotal' = FailedTotal + 1
                 /\ ObservedOf(op)' = ObservedOf(op) + 1
                 /\ invoked' = invoked
                 /\ pc' = [pc EXCEPT ![u] = "select"]
                 /\ currOpIndex' = [currOpIndex EXCEPT ![u] = nextOpIndex[u]]]_vars
C7_Witness ==
    /\ Len(opHist[0]) = 2
    /\ Len(opHist[1]) = 0
    /\ pc[0] = "exec"
    /\ SumOver(failedReturns) = 1
    /\ FailedTotal = 1
    /\ ObservedTotal = 1

(***************************************************************************)
(* Think time.                                                             *)
(***************************************************************************)
\* C8: an operation is invoked only out of a think-time sleep, after at least
\* the think time has passed since the runner's previous operation returned;
\* the think time is an integer of [ThinkLow, ThinkHigh) in random mode and
\* the configured sleep, at least MinSleep, in fixed mode.
LastThink(u) == thinkHist[u][Len(thinkHist[u])]
C8_ThinkBeforeOperation ==
    [][\A u \in Users :
         (pc[u] # "exec" /\ pc'[u] = "exec") =>
             /\ pc[u] = "sleep"
             /\ Len(thinkHist[u]) = Len(opHist[u])
             /\ now - idleSince[u] >= LastThink(u)
             /\ (sleep = 0 => LastThink(u) \in ThinkLow .. (ThinkHigh - 1))
             /\ (sleep # 0 => (LastThink(u) = sleep /\ sleep >= MinSleep))]_vars
C8_Witness ==
    \E u \in Users :
        /\ sleep = 0
        /\ pc[u] = "exec"
        /\ Len(opHist[u]) = 2
        /\ LastThink(u) = ThinkLow

\* C9: when the operation functions draw nothing from the runner's generator,
\* the operations a runner samples and the think times it sleeps are the walk
\* computed from its seed, the matrix and the think policy alone, whatever the
\* latencies and outcomes of its operations were.
RECURSIVE SeedWalk(_, _, _)
SeedWalk(s, curr, n) ==
    IF n = 0
    THEN <<>>
    ELSE LET s1 == RngNext(s)
             nxt == getNextOperation(curr, Probabilities, s1)
         IN  <<[op |-> nxt, think |-> ThinkTime(s1)]>>
                 \o SeedWalk(ThinkRng(s1), nxt, n - 1)
C9_OpenLoop ==
    \A u \in Users :
        opDraws = 0 =>
            LET walk == SeedWalk(NewSource(RandSeed + u), 0, Len(opHist[u]))
            IN  /\ opHist[u] = [i \in 1 .. Len(walk) |-> walk[i].op]
                /\ thinkHist[u] = [i \in 1 .. Len(walk) |-> walk[i].think]
C9_Witness ==
    /\ opDraws = 0
    /\ Len(opHist[1]) = 2
    /\ Len(opHist[0]) = 0
    /\ SumOver(failedReturns) = 1
    /\ ObservedTotal = 1
    /\ sleep = 0
    /\ pc[1] = "sleep"

\* C11: with operation functions that do nothing, the sequence of operation
\* indices a runner chooses is a function of its seed, the matrix and the
\* initial state 0 alone: it is the walk from the seed whichever think-time
\* policy the run has, so the walk under the fixed policy and the walk under
\* the random policy are the same sequence, for any number of runners and
\* any interleaving and timing.
RECURSIVE OpWalk(_, _, _, _)
OpWalk(s, curr, n, fixed) ==
    IF n = 0
    THEN <<>>
    ELSE LET s1 == RngNext(s)
             nxt == getNextOperation(curr, Probabilities, s1)
         IN  <<nxt>> \o OpWalk(IF fixed THEN s1 ELSE RngNext(s1), nxt, n - 1, fixed)
C11_MarkovDeterminism ==
    \A u \in Users :
        opDraws = 0 =>
            LET seed == NewSource(RandSeed + u)
                n == Len(opHist[u])
            IN  /\ opHist[u] = OpWalk(seed, 0, n, TRUE)
                /\ opHist[u] = OpWalk(seed, 0, n, FALSE)

(***************************************************************************)
(* The probability matrix at startup.                                      *)
(***************************************************************************)
\* the exact sum of the entries of a row
RECURSIVE ExactSumFrom(_, _)
ExactSumFrom(row, i) ==
    IF i > Len(row) THEN 0 ELSE row[i] + ExactSumFrom(row, i + 1)
ExactSum(row) == ExactSumFrom(row, 1)
K == Len(Operations)
IsKByK(m) == Len(m) = K /\ \A i \in 1 .. Len(m) : Len(m[i]) = K
\* validateMarkovChain has been applied to config.MarkovChain and err holds
\* what it returned
Validated ==
    /\ Len(config.MarkovChain) # 0
    /\ \/ startPc \in {"only", "default", "setup", "run", "running"}
       \/ startPc = "fatal" /\ fatal \in {InvalidChainFatal, BothFatal}

Offending(m, i) == Len(m[i]) # K \/ RowTotal(m[i]) # ProbDenom
FirstOffending(m, i) == Offending(m, i) /\ \A j \in 1 .. (i - 1) : ~Offending(m, j)
OneHot(p) == [i \in 1 .. K |-> [j \in 1 .. K |-> IF j = p + 1 THEN ProbDenom ELSE 0]]
\* the position of a name in Operations, -1 when it is no operation
PositionOf(name) ==
    IF \E i \in 1 .. K : Operations[i] = name
    THEN (CHOOSE i \in 1 .. K :
              Operations[i] = name /\ \A j \in 1 .. (i - 1) : Operations[j] # name) - 1
    ELSE -1
Resolved == startPc \in {"setup", "run", "running"}

\* C13: the matrix passed to Run comes from exactly one source, in this
\* order: the one-hot matrix of the only-operation when a name and no chain
\* are configured; else the configured chain, validated, when one is
\* configured; else the built-in Probabilities() of the workload.
C13_ResolutionOrder ==
    Resolved =>
        IF config.OnlyOperation # "" /\ Len(config.MarkovChain) = 0
        THEN markovChain = OneHot(PositionOf(config.OnlyOperation))
        ELSE IF Len(config.MarkovChain) # 0
             THEN /\ markovChain = config.MarkovChain
                  /\ validateMarkovChain(K, config.MarkovChain) = Nil
             ELSE markovChain = Probabilities
C13_Witness ==
    /\ startPc = "running"
    /\ Len(config.MarkovChain) # 0
    /\ markovChain = config.MarkovChain
    /\ markovChain # Probabilities

\* C14: a configuration with both an only-operation name and a chain never
\* gets past the only-operation check, whether or not the chain is valid and
\* the name is an operation: startup ends in a fatal error and neither Setup
\* nor Run is called.
BothGiven == config.OnlyOperation # "" /\ Len(config.MarkovChain) # 0
C14_MutuallyExclusive ==
    BothGiven =>
        /\ startPc \in {"sleep", "ramp", "workload", "validate", "only", "fatal"}
        /\ startPc = "fatal" =>
               fatal \in {ParseFatal, SleepFatal, RampFatal, UnknownWorkloadFatal,
                          InvalidChainFatal, BothFatal}
C14_Witness ==
    /\ BothGiven
    /\ config.OnlyOperation = OnlyOp
    /\ validateMarkovChain(K, config.MarkovChain) = Nil
    /\ startPc = "fatal"
    /\ fatal = BothFatal

\* C15: buildMarkovChain(name, w) returns, for a name at index p of
\* w.Operations(), the k by k matrix with 1.0 at column p of every row and 0
\* elsewhere and no error; for a name that is no operation it returns an
\* error and no matrix.
Built ==
    /\ config.OnlyOperation # ""
    /\ Len(config.MarkovChain) = 0
    /\ \/ startPc \in {"default", "setup", "run", "running"}
       \/ startPc = "fatal" /\ fatal = BuildFatal
C15_BuildOneHot ==
    Built =>
        LET p == PositionOf(config.OnlyOperation)
        IN  IF p # -1
            THEN /\ err = Nil
                 /\ markovChain = OneHot(p)
                 /\ startPc # "fatal"
            ELSE /\ err = UnsupportedError
                 /\ markovChain = <<>>
                 /\ startPc = "fatal"
C15_Witness ==
    /\ Built
    /\ startPc = "default"
    /\ config.OnlyOperation = OnlyOp
    /\ markovChain[3][2] = ProbDenom
    /\ markovChain[2][3] = 0

\* C17: the matrix handed to Run, whichever branch resolved it, is k by k,
\* has no negative entry and has every row summing to 1.
C17_MatrixWellFormed ==
    startPc = "running" =>
        /\ IsKByK(markovChain)
        /\ \A i \in 1 .. Len(markovChain) :
               /\ \A j \in 1 .. Len(markovChain[i]) : markovChain[i][j] >= 0
               /\ RowTotal(markovChain[i]) = ProbDenom

\* C20: startup accepts the ramp configuration exactly when rampTime is at
\* most half of runTime, also for an odd runTime where RunTime/2 is an
\* integer division.
RampChecked ==
    startPc \notin {"sleep", "ramp"} /\ fatal \notin {ParseFatal, SleepFatal}
C20_RampAcceptedIffAtMostHalf ==
    RampChecked =>
        (fatal # RampFatal <=> 2 * config.RampTime <= config.RunTime)
C20_Witness ==
    /\ RampChecked
    /\ config.RunTime = 3
    /\ config.RampTime = 1
    /\ startPc = "validate"

(***************************************************************************)
(* Phases.                                                                 *)
(***************************************************************************)
\* C16: in a run with only-operation = OnlyOp and rampTime = 0, every
\* operation a runner samples is OnlyOp, from every current state and for
\* every draw, and only the counters of (OnlyOp, Steady) ever leave zero.
C16_OnlyOperationSteady ==
    rampTime = 0 =>
        LET p == PositionOf(OnlyOp)
        IN  /\ \A curr \in 0 .. (K - 1), s \in 0 .. (RngMod - 1) :
                   getNextOperation(curr, markovChain, s) = p
            /\ \A u \in Users : \A i \in 1 .. Len(opHist[u]) : opHist[u][i] = p
            /\ \A op \in OpNames, ph \in States :
                   (op # OnlyOp \/ ph # Steady) =>
                       /\ attemptMetrics[op][ph] = 0
                       /\ failedMetrics[op][ph] = 0
                       /\ durationMetrics[op][ph] = 0

\* C18: with rampTime = 0 the phase is Steady at every time at which a runner
\* evaluates MetricState, the completion of an operation that is in flight
\* after the end of the run included.
C18_ZeroRampIsSteady ==
    (rampTime = 0 /\ \E u \in Users : pc[u] = "exec") =>
        MetricState(startTime, endTime, rampTime) = Steady

\* C19: with 0 < rampTime <= runTime/2, at every time from the start to the
\* end of the run MetricState is RampUp before start + rampTime, RampDown
\* after end - rampTime and Steady between the two.
C19_PhaseWindows ==
    (0 < rampTime /\ 2 * rampTime <= runTime
        /\ startTime <= now /\ now <= endTime) =>
        MetricState(startTime, endTime, rampTime) =
            IF now < startTime + rampTime THEN RampUp
            ELSE IF now > endTime - rampTime THEN RampDown
            ELSE Steady
C19_Witness ==
    /\ rampTime > 0
    /\ now = endTime - rampTime
    /\ \E u \in Users : pc[u] = "exec"
    /\ MetricState(startTime, endTime, rampTime) = Steady
    /\ \E op \in OpNames : attemptMetrics[op][RampUp] > 0

(***************************************************************************)
(* The order of a runner's iteration and its Markov state.                 *)
(***************************************************************************)
\* C26: a runner takes the steps of an iteration in the order sample and
\* count the attempt, think-time sleep, execute, record and advance: it
\* samples only at the top of its loop, calls the operation only out of a
\* finished sleep, records only an operation it is executing, and samples
\* again only after that record, so it never has two operations in flight.
C26_StrictOrder ==
    [][\A u \in Users :
         /\ opHist'[u] # opHist[u] =>
                /\ pc[u] = "select" /\ pc'[u] = "sleep"
                /\ Len(opHist'[u]) = Len(opHist[u]) + 1
                /\ \E op \in OpNames :
                       /\ op = Operations[nextOpIndex'[u] + 1]
                       /\ AttemptedOf(op)' = AttemptedOf(op) + 1
         /\ (pc[u] # "exec" /\ pc'[u] = "exec") =>
                /\ pc[u] = "sleep"
                /\ now >= wakeAt[u]
                /\ invoked'[nextFunctionOf(u)] = invoked[nextFunctionOf(u)] + 1
         /\ (pc[u] = "exec" /\ pc'[u] # "exec") =>
                /\ pc'[u] = "select"
                /\ ObservedOf(nextFunctionOf(u))' = ObservedOf(nextFunctionOf(u)) + 1
                /\ currOpIndex'[u] = nextOpIndex[u]
         /\ pc[u] = "select" => pc'[u] \in {"select", "sleep"}
         /\ pc[u] = "sleep" => pc'[u] \in {"sleep", "exec"}
         /\ pc[u] # "select" => opHist'[u] = opHist[u]]_vars
C26_Witness ==
    /\ sleep # 0
    /\ pc[0] = "select"
    /\ Len(opHist[0]) = 2
    /\ SumOver(invoked) = 2
    /\ ObservedTotal = 2

\* C28: a runner's Markov state starts at 0 and changes only when an
\* operation returns, to the index of that operation, whether it succeeded or
\* failed; so every sample is taken from the row of the operation executed
\* last and the first sample of a runner from row 0.
C28_MarkovStateAdvance ==
    [][\A u \in Users :
         /\ Len(opHist[u]) = 0 => currOpIndex[u] = 0
         /\ currOpIndex'[u] # currOpIndex[u] =>
                pc[u] = "exec" /\ pc'[u] = "select"
         /\ (pc[u] = "exec" /\ pc'[u] = "select") =>
                currOpIndex'[u] = opHist[u][Len(opHist[u])]
         /\ opHist'[u] # opHist[u] =>
                /\ currOpIndex[u] =
                       IF Len(opHist[u]) = 0 THEN 0 ELSE opHist[u][Len(opHist[u])]
                /\ opHist'[u][Len(opHist'[u])] =
                       getNextOperation(currOpIndex[u], markovChain,
                                        RngNext(rngState[u]))]_vars
C28_Witness ==
    /\ Len(opHist[1]) = 2
    /\ SumOver(failedReturns) = 1
    /\ SumOver(invoked) = 1
    /\ currOpIndex[1] = opHist[1][1]
    /\ currOpIndex[1] # 0

(***************************************************************************)
(* The sampler.                                                            *)
(***************************************************************************)
\* the sum of the first j entries of a row, accumulated as the walk does
Prefix(row, j) == RowTotal(SubSeq(row, 1, j))
\* the draw s/RngMod is below the sum of the first j entries
Below(row, j, s) == s * ProbDenom < Prefix(row, j) * RngMod
SmallestOrLast(row, s) ==
    IF \E j \in 1 .. Len(row) : Below(row, j, s)
    THEN (CHOOSE j \in 1 .. Len(row) :
              Below(row, j, s) /\ \A h \in 1 .. (j - 1) : ~Below(row, h, s)) - 1
    ELSE Len(row) - 1

\* C27: getNextOperation(i, P, r) returns, for its one draw u, the smallest
\* index j with u < P[i][0] + ... + P[i][j], and the last index when there
\* is no such j, for every row of the chain Run is called with and every
\* draw; a runner's sample is that index for the next draw of its generator
\* and the row of its current state.
C27_SmallestIndexOrLast ==
    [][/\ (now = 0 /\ \A u \in Users : pc[u] = "select" /\ opHist[u] = <<>>) =>
              \A curr \in 0 .. (K - 1), s \in 0 .. (RngMod - 1) :
                  getNextOperation(curr, markovChain, s) =
                      SmallestOrLast(markovChain[curr + 1], s)
       /\ \A u \in Users :
              opHist'[u] # opHist[u] =>
                  nextOpIndex'[u] =
                      SmallestOrLast(markovChain[currOpIndex[u] + 1],
                                     RngNext(rngState[u]))]_vars
C27_Witness ==
    /\ markovChain = DeficientChain
    /\ Len(opHist[1]) = 2
    /\ opHist[1][1] = K - 1
    /\ ~ \E j \in 1 .. K : Below(markovChain[1], j, RngNext(NewSource(RandSeed + 1)))
    /\ Len(opHist[0]) = 1
    /\ opHist[0][1] = 1

(***************************************************************************)
(* The think-time configuration.                                           *)
(***************************************************************************)
\* the duration a well-formed sleep string stands for, in milliseconds
WellFormed(str) == str = <<0>> \/ (Len(str) = 2 /\ str[2] \in {"ms", "s"})
Millis(str) ==
    IF Len(str) = 1 THEN 0
    ELSE IF str[2] = "s" THEN 1000 * str[1] ELSE str[1]
SleepChecked == startPc # "sleep"

\* C21: an unset sleep selects random mode; a set sleep of at least 100 ms
\* is accepted and is the fixed think time Run is called with; a set sleep
\* below 100 ms, 0 included, is a fatal startup error.
C21_SleepConfiguration ==
    SleepChecked =>
        /\ config.Sleep = <<>> =>
               /\ sleep = 0 /\ ~FixedMode
               /\ fatal \notin {ParseFatal, SleepFatal}
        /\ (WellFormed(config.Sleep) /\ Millis(config.Sleep) >= 100) =>
               /\ sleep = Millis(config.Sleep) /\ FixedMode
               /\ fatal \notin {ParseFatal, SleepFatal}
        /\ (WellFormed(config.Sleep) /\ Millis(config.Sleep) < 100) =>
               startPc = "fatal" /\ fatal = SleepFatal
C21_Witness ==
    /\ config.Sleep = <<100, "ms">>
    /\ startPc = "running"
    /\ sleep = 100

(***************************************************************************)
(* The document load.                                                      *)
(***************************************************************************)
InChan(d) == Cardinality({k \in 1 .. Len(workChan) : workChan[k] = d})
HeldBy(d) == {w \in Workers : wpc[w] = "upsert" /\ doc[w] = d}
Written(d) == Len(upsertCalls[d]) = 1 /\ HeldBy(d) = {} /\ ~panicked
LoadComplete ==
    /\ \A d \in 0 .. (numItemsArg - 1) : Written(d)
    /\ workChan = <<>>
    /\ \A w \in Workers : wpc[w] # "upsert"

\* C22: when the workload's Setup() hook is invoked, and when the loader
\* returns, all N documents have been written and none is queued in the
\* channel or being written by a worker.
C22_HookAfterWrites ==
    [][(\/ startPc = "setup" /\ startPc' = "hook"
        \/ startPc = "hook" /\ startPc' = "warmup") => LoadComplete]_vars

\* C23: once the persistence hook has returned an error for a document the
\* process is dead and Run has not been called.
C23_WriteErrorStopsBeforeRun ==
    (panicked /\ err = UpsertPanic) => startPc # "running"

\* C24: when Run is called and the runners are at the top of their loops,
\* no writer is writing a document and no document is queued.
C24_SetupOverBeforeRun ==
    startPc = "running" =>
        /\ workChan = <<>>
        /\ \A w \in Workers : wpc[w] # "upsert"

\* C29: after the producer has enqueued all N documents, eventually every
\* writer has exited (or the process has died of a failed write).
C29_WritersEventuallyExit ==
    (produced = numItemsArg) ~>
        (panicked \/ \A w \in Workers : wpc[w] = "exited")

\* C30: the producer generates the documents 0 .. N-1 in order, and every
\* generated document is either still queued once or has been passed to
\* coll.Upsert once, by the one writer that received it.
C30_EachDocumentOnce ==
    /\ produced <= numItemsArg
    /\ startPc # "setup" => produced = numItemsArg
    /\ \A d \in Docs :
           /\ d >= produced =>
                  InChan(d) = 0 /\ HeldBy(d) = {} /\ upsertCalls[d] = <<>>
           /\ d < produced =>
                  /\ InChan(d) + Len(upsertCalls[d]) = 1
                  /\ Cardinality(HeldBy(d)) <= 1
                  /\ \A w \in HeldBy(d) : upsertCalls[d] = <<w>>
    /\ \A k \in 1 .. Len(workChan) :
           \A l \in 1 .. Len(workChan) : k < l => workChan[k] < workChan[l]
C30_Witness ==
    /\ numItemsArg = MaxItems
    /\ \A d \in Docs : Written(d)
    /\ \A w \in Workers : \E d \in Docs : upsertCalls[d] = <<w>>
    /\ wpc = [w \in Workers |-> "select"]

(***************************************************************************)
(* The exit status of the process.                                         *)
(***************************************************************************)
\* logger.Fatal exits with 1, an unrecovered panic with 2, and main
\* returning after Run with 0; NoExit while the process is running.
NoExit == -1
ExitCode ==
    IF startPc = "fatal" THEN 1
    ELSE IF panicked THEN 2
    ELSE IF runReturned THEN 0
    ELSE NoExit

\* C25: the process exits non-zero on a fatal startup error, and once a
\* run that was started has ended, by deadline or by interrupt, the exit
\* status is zero.
C25_ExitStatus ==
    /\ startPc = "fatal" => ExitCode > 0
    /\ (startPc = "running" /\ ExitCode # NoExit) => ExitCode = 0

(***************************************************************************)
(* The root context and the join counter.                                  *)
(***************************************************************************)
\* C31: once the run deadline has elapsed and a runner has received from
\* its deadline timer, the root context shared by the runners and the
\* operation functions is cancelled.
C31_DeadlineCancelsRoot ==
    (\E u \in Users : timerDrained[u]) => cancelled

\* C34: the join counter set to the number of runners never becomes
\* negative.
C34_JoinCounterNeverNegative ==
    wgCount >= 0

(***************************************************************************)
(* The random sources.                                                     *)
(***************************************************************************)
\* C32: runner u is seeded with RandSeed + u, and no random source is drawn
\* from by two different runners.
C32_NoSharedRandomSource ==
    /\ (now = 0 /\ \A u \in Users : opHist[u] = <<>>) =>
           \A u \in Users : rngState[u] = NewSource(RandSeed + u)
    /\ \A u \in Users :
           \A v \in Users :
               (globalRandDraws[u] > 0 /\ globalRandDraws[v] > 0) => u = v

(***************************************************************************)
(* The index setup of the workload.                                        *)
(***************************************************************************)
Returned == hook.pc = "returned"
Succeeded == Returned /\ hook.err = Nil
QueryDone == hook.pc \notin {"createQuery", "waitQuery"}

\* C33: an index that exists is left as it is; a missing service ends in a
\* warning and not in a failure; the hook succeeds only once an index that
\* is being built is online; an error of any other kind makes the hook
\* fail.
C33_IndexSetupIdempotent ==
    /\ (hook.queryService /\ hook.queryAtCall # "absent") =>
           "query" \notin hook.created
    /\ (hook.ftsService /\ hook.ftsAtCall # "absent") =>
           "fts" \notin hook.created
    /\ (QueryDone /\ ~hook.queryService) =>
           /\ "query" \in hook.warned
           /\ hook.err \notin {CreateError, GetAllError, StateError}
    /\ (Returned /\ ~hook.ftsService /\ ~hook.otherError) =>
           "fts" \in hook.warned /\ Succeeded
    /\ (Succeeded /\ hook.queryService) => hook.queryIndex = "online"
    /\ (hook.otherError \/ hook.pollError) => ~Succeeded

(***************************************************************************)
(* The sampler and the sum of a row.                                       *)
(***************************************************************************)
\* the draw is below the running sum at some position of the row
ThroughTest(row, u) == \E j \in 1 .. Len(row) : u < Prefix(row, j)
SampledFrom(row) == sample.pc = "returned" /\ sample.probRow = row

\* C35 as stated: for a row whose entries add up to exactly 1 the sampler
\* returns through the cumulative test and never returns an index of
\* probability zero.
C35_ExactRowNeverFallsBack ==
    \A row \in DrawRows :
        (SampledFrom(row) /\ ExactSum(row) = ProbDenom) =>
            /\ ThroughTest(row, sample.randVal)
            /\ row[sample.index + 1] # 0

\* C35: for a row whose running float sum, accumulated from the left as
\* getNextOperation and validateMarkovChain accumulate it, is exactly 1,
\* the sampler returns through the cumulative test and never returns an
\* index of probability zero.
C35_FloatSumRowNeverFallsBack ==
    \A row \in DrawRows :
        (SampledFrom(row) /\ RowTotal(row) = ProbDenom) =>
            /\ ThroughTest(row, sample.randVal)
            /\ row[sample.index + 1] # 0
C35_Witness ==
    /\ SampledFrom(<<1000, 1, 0, 0, 0>>)
    /\ sample.randVal = 990
    /\ sample.index = 0

(***************************************************************************)
(* The two ramp windows.                                                   *)
(***************************************************************************)
\* C36: for an accepted ramp time and every time from the start to the end
\* of the run the RampUp test and the RampDown test of MetricState do not
\* hold together, so an instant of the RampDown window is labelled RampDown.
C36_RampWindowsDisjoint ==
    (startTime <= now /\ now <= endTime) =>
        /\ ~(now - startTime < rampTime /\ endTime - now < rampTime)
        /\ endTime - now < rampTime =>
               MetricState(startTime, endTime, rampTime) = RampDown
C36_Witness ==
    /\ rampTime > 0
    /\ 2 * rampTime = runTime
    /\ now = startTime + rampTime
    /\ MetricState(startTime, endTime, rampTime) = Steady

(***************************************************************************)
(* The range of the operation indices.                                     *)
(***************************************************************************)
InRange(index) == index \in 0 .. (K - 1)

\* C37: the current operation index and every index the sampler returns lie
\* in 0..k-1 for the matrix in use, so the row, the operation name, the
\* function and the metric handles of the index all exist.
C37_IndicesInRange ==
    /\ (now = 0 /\ \A u \in Users : pc[u] = "select" /\ opHist[u] = <<>>) =>
           /\ IsKByK(markovChain)
           /\ \A curr \in 0 .. (K - 1), s \in 0 .. (RngMod - 1) :
                  InRange(getNextOperation(curr, markovChain, s))
    /\ \A u \in Users :
           /\ InRange(currOpIndex[u])
           /\ InRange(nextOpIndex[u])
           /\ currOpIndex[u] + 1 \in DOMAIN markovChain
           /\ nextOpIndex[u] + 1 \in DOMAIN Operations
           /\ Operations[nextOpIndex[u] + 1] \in DOMAIN invoked
           /\ Operations[nextOpIndex[u] + 1] \in DOMAIN attemptMetrics
           /\ Operations[nextOpIndex[u] + 1] \in DOMAIN failedMetrics
           /\ Operations[nextOpIndex[u] + 1] \in DOMAIN durationMetrics
C37_Witness ==
    /\ markovChain = LastOpChain
    /\ \E u \in Users :
           /\ pc[u] = "select"
           /\ Len(opHist[u]) = MaxIter
           /\ currOpIndex[u] = K - 1

(***************************************************************************)
(* The startup checks and the first effects on the target.                 *)
(***************************************************************************)
SideEffect ==
    \/ produced > 0
    \/ \E d \in Docs : upsertCalls[d] # <<>>
    \/ startPc \in {"hook", "warmup", "run", "running"}
ChecksPass ==
    /\ config.Sleep = <<>> \/ (WellFormed(config.Sleep) /\ Millis(config.Sleep) >= 100)
    /\ 2 * config.RampTime <= config.RunTime
    /\ config.Workload \in KnownWorkloads
    /\ Len(config.MarkovChain) # 0 => validateMarkovChain(K, config.MarkovChain) = Nil
    /\ config.OnlyOperation # "" => config.OnlyOperation \in OpNames
    /\ ~BothGiven

\* C38: a document is generated or written, the workload's Setup hook is
\* invoked and runners are spawned only if every startup check has passed.
C38_ChecksBeforeEffects ==
    SideEffect => (ChecksPass /\ fatal = "")
C38_Witness ==
    /\ startPc = "running"
    /\ upsertCalls[0] # <<>>
    /\ config.Sleep = <<100, "ms">>
    /\ Len(config.MarkovChain) # 0
====
